---- MODULE Spec2Model ----
(***************************************************************************)
(* CloudTrailTools (awslabs/cloudtrail_mcp_server/tools.py).               *)
(*                                                                         *)
(* Spec        the async tool handlers lake_query and get_query_status     *)
(*             running as tasks of one asyncio event loop.                 *)
(* SpecStores  one invocation of list_event_data_stores.                   *)
(* SpecValue   one call of _format_field_value.                            *)
(* SpecNorm    one call of _process_query_results.                         *)
(* SpecLookup  one invocation of lookup_events.                            *)
(***************************************************************************)
EXTENDS Integers, Sequences, FiniteSets, TLC

\* ---------------------------------------------------------------- bounds

\* Number of tool invocations that can be in flight on the server.
NumInv == 2

Inv == 1..NumInv

\* Longest listing of event data stores the remote service answers with.
MaxStores == 2

\* Longest str, over ShortAlphabet, passed to _format_field_value besides the
\* listed ones.
MaxStrLen == 2

\* Most rows of a result grid, and most descriptors of a row.
MaxRows == 2
MaxFields == 2

\* Most accesses to the cloudtrail_client property.
MaxAccesses == 3

\* ------------------------------------------------------ program constants

max_wait_time == 300
poll_interval == 2
MaxQueryResults == 1000

\* Python's None.
None == "None"

NonTerminalStatuses == {"QUEUED", "RUNNING"}
TerminalStatuses == {"FINISHED", "FAILED", "CANCELLED", "TIMED_OUT"}
Statuses == NonTerminalStatuses \cup TerminalStatuses

\* Exceptions a remote call (or the client factory) can raise.
Faults == {"ClientError"}

\* The ErrorMessage key of a describe_query payload: absent (None) or a text.
ErrorMessages == {None, "msg"}

\* The QueryResultRows / NextToken of a get_query_results payload.
RowPayloads == {"rows"}
Tokens == {None, "tok"}

Kinds == {"lake_query", "get_query_status"}

\* The QueryIds the remote service hands out, one per submission: the
\* submission of invocation i is answered with QueryId i.
QueryIds == 1..NumInv

VARIABLES
    loop,             \* the invocation running on the event loop thread, 0 when none
    kind,             \* kind[i]: the handler invocation i runs, None before it arrives
    pc,               \* pc[i]: where invocation i stands in its handler
    query_id,         \* query_id[i]: local query_id, None before start_query answered
    elapsed_time,     \* elapsed_time[i]: local of the poll loop
    query_status,     \* query_status[i]: local of the poll loop
    status_response,  \* status_response[i]: last describe_query payload, {} modelled
                      \* as the payload with no key
    result,           \* result[i]: the value the handler returns, None before
    exc,              \* exc[i]: the exception caught by the handler's except clause
    raised,           \* raised[i]: the exception that left the handler
    ctx_errors,       \* ctx_errors[i]: number of ctx.error calls made by i
    calls,            \* calls[i]: remote calls and sleeps issued by i's try body
    lastCall,         \* lastCall[i]: the last remote call of i and its arguments
    firstTerminal     \* firstTerminal[i]: position and status of the first terminal
                      \* status the remote service answered i's poll loop with,
                      \* position 0 while it has answered none

lakeVars == <<loop, kind, pc, query_id, elapsed_time, query_status, status_response,
              result, exc, raised, ctx_errors, calls, lastCall, firstTerminal>>

\* list_event_data_stores, one invocation.
VARIABLES
    eds_pc,             \* where the invocation stands
    include_details,    \* the argument include_details
    event_data_stores,  \* response.get('EventDataStores', []), empty before the listing
    formatted_stores,   \* the list formatted_stores
    formatted_store,    \* the local formatted_store of the current iteration
    detail_fetches,     \* detail_fetches[k]: outcomes of the get_event_data_store
                        \* calls made for the k-th listed store, in order
    eds_result,         \* the dictionary returned, None before
    eds_exc,            \* the exception caught by the outer except clause
    eds_ctx_errors      \* number of ctx.error calls

storeVars == <<eds_pc, include_details, event_data_stores, formatted_stores,
               formatted_store, detail_fetches, eds_result, eds_exc, eds_ctx_errors>>

\* The result normalizer: one call of _format_field_value, one call of
\* _process_query_results.
VARIABLES
    fv_pc,        \* "idle", "call" (called, not yet returned) or "done"
    fv_value,     \* the argument value of _format_field_value
    fv_return,    \* what the call returned
    pqr_pc,       \* "idle", "call" or "done"
    raw_results,  \* the argument raw_results of _process_query_results
    pqr_outcome   \* how the call ended: <<"return", list>> or <<"raise", exception>>

normVars == <<fv_pc, fv_value, fv_return, pqr_pc, raw_results, pqr_outcome>>

\* lookup_events, one invocation.
VARIABLES
    lk_pc,            \* where the invocation stands
    lk_now,           \* the wall clock, in hours
    region,           \* the argument region
    start_time,       \* the argument and local start_time
    end_time,         \* the argument and local end_time
    attribute_key,    \* the argument attribute_key
    attribute_value,  \* the argument attribute_value
    max_results,      \* the argument and local max_results
    start_dt,         \* the local start_dt
    end_dt,           \* the local end_dt
    lookup_params,    \* the local lookup_params
    lk_call,          \* the keyword arguments of the remote lookup_events call
    lk_result,        \* the dictionary returned
    lk_exc,           \* the exception caught by the except clause
    lk_ctx_errors     \* number of ctx.error calls

lookupVars == <<lk_pc, lk_now, region, start_time, end_time, attribute_key,
                attribute_value, max_results, start_dt, end_dt, lookup_params,
                lk_call, lk_result, lk_exc, lk_ctx_errors>>

\* The CloudTrailTools instance and the accesses to its cloudtrail_client
\* property.
VARIABLES
    _cloudtrail_client,         \* the attribute self._cloudtrail_client
    _cloudtrail_client_region,  \* the attribute self._cloudtrail_client_region
    cc_constructed,             \* number of clients the property has constructed
    cc_returns                  \* how each access to the property ended, in order

clientVars == <<_cloudtrail_client, _cloudtrail_client_region, cc_constructed, cc_returns>>

vars == <<lakeVars, storeVars, normVars, lookupVars, clientVars>>

\* What the actions of one specification leave alone: the other operations.
lakeOthers == <<storeVars, normVars, lookupVars, clientVars>>
storeOthers == <<lakeVars, normVars, lookupVars, clientVars>>
normOthers == <<lakeVars, storeVars, lookupVars, clientVars>>
lookupOthers == <<lakeVars, storeVars, normVars, clientVars>>
clientOthers == <<lakeVars, storeVars, normVars, lookupVars>>

\* The payload {} the code initialises status_response with (line 265).
EmptyPayload == [QueryStatus |-> None, ErrorMessage |-> None]

NoCalls == [start_query |-> 0, describe_query |-> 0, get_query_results |-> 0, sleep |-> 0]

NoCall == [op |-> None, QueryId |-> None, MaxQueryResults |-> None]

NoTerminal == [at |-> 0, status |-> None]

RemoteCall(op, q, m) == [op |-> op, QueryId |-> q, MaxQueryResults |-> m]

\* The try body's locals and the record of its calls, as they are when the
\* body is entered and after its frame is gone.
FrameInit(i) ==
    /\ query_id' = [query_id EXCEPT ![i] = None]
    /\ elapsed_time' = [elapsed_time EXCEPT ![i] = 0]
    /\ query_status' = [query_status EXCEPT ![i] = None]
    /\ status_response' = [status_response EXCEPT ![i] = EmptyPayload]
    /\ calls' = [calls EXCEPT ![i] = NoCalls]
    /\ lastCall' = [lastCall EXCEPT ![i] = NoCall]
    /\ firstTerminal' = [firstTerminal EXCEPT ![i] = NoTerminal]

FrameUnchanged ==
    UNCHANGED <<query_id, elapsed_time, query_status, status_response, calls, lastCall,
                firstTerminal>>

LakeInit ==
    /\ loop = 0
    /\ kind = [i \in Inv |-> None]
    /\ pc = [i \in Inv |-> "idle"]
    /\ query_id = [i \in Inv |-> None]
    /\ elapsed_time = [i \in Inv |-> 0]
    /\ query_status = [i \in Inv |-> None]
    /\ status_response = [i \in Inv |-> EmptyPayload]
    /\ result = [i \in Inv |-> None]
    /\ exc = [i \in Inv |-> None]
    /\ raised = [i \in Inv |-> None]
    /\ ctx_errors = [i \in Inv |-> 0]
    /\ calls = [i \in Inv |-> NoCalls]
    /\ lastCall = [i \in Inv |-> NoCall]
    /\ firstTerminal = [i \in Inv |-> NoTerminal]

\* ------------------------------------------------------------ event loop

\* A tool call arrives: the server creates the task of the registered
\* coroutine (register, lines 70-82).  get_query_status receives its query id
\* as an argument.
Invoke(i) ==
    /\ pc[i] = "idle"
    /\ \E k \in Kinds :
        /\ kind' = [kind EXCEPT ![i] = k]
        /\ IF k = "get_query_status"
             THEN \E q \in QueryIds : query_id' = [query_id EXCEPT ![i] = q]
             ELSE UNCHANGED query_id
    /\ pc' = [pc EXCEPT ![i] = "ready"]
    /\ UNCHANGED <<loop, firstTerminal, elapsed_time, query_status, status_response, result, exc,
                   raised, ctx_errors, calls, lastCall, firstTerminal>>
    /\ UNCHANGED lakeOthers

\* The event loop runs one task at a time; a task keeps the thread until it
\* awaits or finishes.  A ready task starts when the thread is free.
Run(i) ==
    /\ pc[i] = "ready"
    /\ loop = 0
    /\ loop' = i
    /\ pc' = [pc EXCEPT ![i] = "client"]
    /\ UNCHANGED <<kind, firstTerminal, query_id, elapsed_time, query_status, status_response, result,
                   exc, raised, ctx_errors, calls, lastCall, firstTerminal>>
    /\ UNCHANGED lakeOthers

\* An exception raised inside the try body is caught by `except Exception as e`
\* (lines 300, 349).
Catch(i, e) ==
    /\ exc' = [exc EXCEPT ![i] = e]
    /\ pc' = [pc EXCEPT ![i] = "except"]

\* _get_cloudtrail_client(region) (lines 55-68, called at 245 and 333): a new
\* client, or the exception of the session, logged and re-raised.
GetClient(i) ==
    /\ pc[i] = "client"
    /\ loop = i
    /\ \/ /\ pc' = [pc EXCEPT ![i] = IF kind[i] = "lake_query" THEN "start_query"
                                                                 ELSE "describe_once"]
          /\ UNCHANGED exc
       \/ \E e \in Faults : Catch(i, e)
    /\ UNCHANGED <<loop, kind, result, raised, ctx_errors>>
    /\ FrameUnchanged
    /\ UNCHANGED lakeOthers

\* ------------------------------------------------------------ lake_query

\* cloudtrail_client.start_query(QueryStatement=sql) (lines 251-256) and the
\* initialisation of the poll loop's locals (lines 259-265).
LQ_StartQuery(i) ==
    /\ pc[i] = "start_query"
    /\ loop = i
    /\ calls' = [calls EXCEPT ![i].start_query = @ + 1]
    /\ lastCall' = [lastCall EXCEPT ![i] = RemoteCall("start_query", None, None)]
    /\ \/ /\ query_id' = [query_id EXCEPT ![i] = i]
          /\ elapsed_time' = [elapsed_time EXCEPT ![i] = 0]
          /\ query_status' = [query_status EXCEPT ![i] = "RUNNING"]
          /\ status_response' = [status_response EXCEPT ![i] = EmptyPayload]
          /\ pc' = [pc EXCEPT ![i] = "while"]
          /\ UNCHANGED exc
       \/ /\ \E e \in Faults : Catch(i, e)
          /\ UNCHANGED <<query_id, elapsed_time, query_status, status_response>>
    /\ UNCHANGED <<loop, firstTerminal, kind, result, raised, ctx_errors>>
    /\ UNCHANGED lakeOthers

\* Mutant of LQ_LoopCond: the comparison inverted, the loop body never runs.
LQ_LoopCond_Inverted(i) == elapsed_time[i] > max_wait_time

\* Mutant of LQ_LoopCond: the budget compared with <=.
LQ_LoopCond_Inclusive(i) == elapsed_time[i] <= max_wait_time

\* `while elapsed_time < max_wait_time` (line 267).
LQ_LoopCond(i) == elapsed_time[i] < max_wait_time

\* Mutant of LQ_IsTerminal: TIMED_OUT left out of the list.
LQ_IsTerminal_NoTimedOut(s) == s \in {"FINISHED", "FAILED", "CANCELLED"}

\* `query_status in ['FINISHED', 'FAILED', 'CANCELLED', 'TIMED_OUT']` (line 271).
LQ_IsTerminal(s) == s \in {"FINISHED", "FAILED", "CANCELLED", "TIMED_OUT"}

\* The loop test (line 267): into the body, or out of the loop.
LQ_While(i) ==
    /\ pc[i] = "while"
    /\ loop = i
    /\ pc' = [pc EXCEPT ![i] = IF LQ_LoopCond(i) THEN "describe" ELSE "final"]
    /\ UNCHANGED <<loop, kind, result, exc, raised, ctx_errors>>
    /\ FrameUnchanged
    /\ UNCHANGED lakeOthers

\* status_response = describe_query(QueryId=query_id);
\* query_status = status_response['QueryStatus']; `if query_status in [...]:
\* break` (lines 268-272).  The remote service answers with any status, or the
\* call raises.
LQ_Describe(i) ==
    /\ pc[i] = "describe"
    /\ loop = i
    /\ calls' = [calls EXCEPT ![i].describe_query = @ + 1]
    /\ lastCall' = [lastCall EXCEPT ![i] = RemoteCall("describe_query", query_id[i], None)]
    /\ \/ /\ \E s \in Statuses, m \in ErrorMessages :
               /\ status_response' = [status_response EXCEPT
                                         ![i] = [QueryStatus |-> s, ErrorMessage |-> m]]
               /\ query_status' = [query_status EXCEPT ![i] = s]
               /\ pc' = [pc EXCEPT ![i] = IF LQ_IsTerminal(s) THEN "final" ELSE "sleep"]
               /\ firstTerminal' =
                      IF firstTerminal[i].at = 0 /\ s \in TerminalStatuses
                        THEN [firstTerminal EXCEPT
                                 ![i] = [at |-> calls[i].describe_query + 1, status |-> s]]
                        ELSE firstTerminal
          /\ UNCHANGED exc
       \/ /\ \E e \in Faults : Catch(i, e)
          /\ UNCHANGED <<status_response, query_status, firstTerminal>>
    /\ UNCHANGED <<loop, kind, query_id, elapsed_time, result, raised, ctx_errors>>
    /\ UNCHANGED lakeOthers

\* time.sleep(poll_interval); elapsed_time += poll_interval (lines 274-275).
\* pc[i] = "sleep" is the invocation inside time.sleep; the action is the
\* return from it.  time.sleep is not awaited: the coroutine does not yield,
\* the thread of the event loop sleeps and `loop` stays with i.
LQ_Sleep(i) ==
    /\ pc[i] = "sleep"
    /\ loop = i
    /\ calls' = [calls EXCEPT ![i].sleep = @ + 1]
    /\ elapsed_time' = [elapsed_time EXCEPT ![i] = @ + poll_interval]
    /\ pc' = [pc EXCEPT ![i] = "while"]
    /\ UNCHANGED <<loop, firstTerminal, kind, query_id, query_status, status_response, result, exc,
                   raised, ctx_errors, lastCall>>
    /\ UNCHANGED lakeOthers

\* Mutant of LQ_Finished: every status but RUNNING takes the result branch.
LQ_Finished_NotRunning(i) == query_status[i] # "RUNNING"

\* `if query_status == 'FINISHED'` (line 278).
LQ_Finished(i) == query_status[i] = "FINISHED"

\* The QueryResult of the else branch (lines 293-298): no query_result_rows
\* and no next_token are passed.
LQ_ResultElse(i) ==
    [query_id |-> query_id[i],
     query_status |-> query_status[i],
     query_result_rows |-> None,
     next_token |-> None,
     error_message |-> status_response[i].ErrorMessage]

\* The QueryResult of the FINISHED branch (lines 285-291): no error_message
\* is passed.
LQ_ResultFinished(i, rows, token) ==
    [query_id |-> query_id[i],
     query_status |-> query_status[i],
     query_result_rows |-> rows,
     next_token |-> token,
     error_message |-> None]

\* After the loop (lines 277-298): towards the result fetch, or the return of
\* the else branch.
LQ_Final(i) ==
    /\ pc[i] = "final"
    /\ loop = i
    /\ IF LQ_Finished(i)
         THEN /\ pc' = [pc EXCEPT ![i] = "get_results"]
              /\ UNCHANGED result
         ELSE /\ pc' = [pc EXCEPT ![i] = "return"]
              /\ result' = [result EXCEPT ![i] = LQ_ResultElse(i)]
    /\ UNCHANGED <<loop, kind, exc, raised, ctx_errors>>
    /\ FrameUnchanged
    /\ UNCHANGED lakeOthers

\* get_query_results(QueryId=query_id, MaxQueryResults=1000) and the
\* QueryResult built from it (lines 279-291).
LQ_GetResults(i) ==
    /\ pc[i] = "get_results"
    /\ loop = i
    /\ calls' = [calls EXCEPT ![i].get_query_results = @ + 1]
    /\ lastCall' = [lastCall EXCEPT
                       ![i] = RemoteCall("get_query_results", query_id[i], MaxQueryResults)]
    /\ \/ /\ \E rows \in RowPayloads, token \in Tokens :
               result' = [result EXCEPT ![i] = LQ_ResultFinished(i, rows, token)]
          /\ pc' = [pc EXCEPT ![i] = "return"]
          /\ UNCHANGED exc
       \/ /\ \E e \in Faults : Catch(i, e)
          /\ UNCHANGED result
    /\ UNCHANGED <<loop, firstTerminal, kind, query_id, elapsed_time, query_status, status_response,
                   raised, ctx_errors>>
    /\ UNCHANGED lakeOthers

\* ------------------------------------------------------ get_query_status

\* The QueryStatus built from one describe_query payload (lines 340-347).
GQS_Result(i, payload) ==
    [query_id |-> query_id[i],
     query_status |-> payload.QueryStatus,
     query_result_rows |-> None,
     next_token |-> None,
     error_message |-> payload.ErrorMessage]

\* response = describe_query(QueryId=query_id) and the QueryStatus built from
\* it (lines 338-347): one status fetch, no loop.
GQS_Describe(i) ==
    /\ pc[i] = "describe_once"
    /\ loop = i
    /\ calls' = [calls EXCEPT ![i].describe_query = @ + 1]
    /\ lastCall' = [lastCall EXCEPT ![i] = RemoteCall("describe_query", query_id[i], None)]
    /\ \/ /\ \E s \in Statuses, m \in ErrorMessages :
               result' = [result EXCEPT
                             ![i] = GQS_Result(i, [QueryStatus |-> s, ErrorMessage |-> m])]
          /\ pc' = [pc EXCEPT ![i] = "return"]
          /\ UNCHANGED exc
       \/ /\ \E e \in Faults : Catch(i, e)
          /\ UNCHANGED result
    /\ UNCHANGED <<loop, firstTerminal, kind, query_id, elapsed_time, query_status, status_response,
                   raised, ctx_errors>>
    /\ UNCHANGED lakeOthers

\* --------------------------------------------------- leaving the handler

\* `return QueryResult(...)` / `return QueryStatus(...)` (lines 285, 293,
\* 340): the coroutine ends, its value goes to the caller, its frame is gone
\* and the event loop thread is free.
Return(i) ==
    /\ pc[i] = "return"
    /\ loop = i
    /\ loop' = 0
    /\ pc' = [pc EXCEPT ![i] = "done"]
    /\ result' = [result EXCEPT ![i] = None]
    /\ FrameInit(i)
    /\ UNCHANGED <<kind, exc, raised, ctx_errors>>
    /\ UNCHANGED lakeOthers

\* Mutant of CtxError: the handler only logs, ctx.error is not called.
CtxError_LogOnly(i) ==
    /\ pc[i] = "except"
    /\ loop = i
    /\ loop' = 0
    /\ pc' = [pc EXCEPT ![i] = "awaiting"]
    /\ FrameInit(i)
    /\ UNCHANGED <<kind, result, exc, raised, ctx_errors>>
    /\ UNCHANGED lakeOthers

\* logger.error(...); await ctx.error(...) (lines 301-302, 350-351): the one
\* await of the handler.  The coroutine yields to the event loop until the
\* notification is sent.  The try body's locals are dead in the handler, which
\* reads only e.
CtxError(i) ==
    /\ pc[i] = "except"
    /\ loop = i
    /\ ctx_errors' = [ctx_errors EXCEPT ![i] = @ + 1]
    /\ loop' = 0
    /\ pc' = [pc EXCEPT ![i] = "awaiting"]
    /\ FrameInit(i)
    /\ UNCHANGED <<kind, result, exc, raised>>
    /\ UNCHANGED lakeOthers

\* The awaited ctx.error completes and the event loop resumes the coroutine.
Resume(i) ==
    /\ pc[i] = "awaiting"
    /\ loop = 0
    /\ loop' = i
    /\ pc' = [pc EXCEPT ![i] = "reraise"]
    /\ UNCHANGED <<kind, result, exc, raised, ctx_errors>>
    /\ FrameUnchanged
    /\ UNCHANGED lakeOthers

\* The exception the bare `raise` re-raises (lines 303, 352): the one caught.
Reraised(i) == exc[i]

\* `raise` (lines 303, 352): the exception leaves the coroutine.
Raise(i) ==
    /\ pc[i] = "reraise"
    /\ loop = i
    /\ loop' = 0
    /\ raised' = [raised EXCEPT ![i] = Reraised(i)]
    /\ pc' = [pc EXCEPT ![i] = "failed"]
    /\ UNCHANGED <<kind, result, exc, ctx_errors>>
    /\ FrameUnchanged
    /\ UNCHANGED lakeOthers

LakeNext ==
    \E i \in Inv :
        \/ Invoke(i)
        \/ Run(i)
        \/ GetClient(i)
        \/ LQ_StartQuery(i)
        \/ LQ_While(i)
        \/ LQ_Describe(i)
        \/ LQ_Sleep(i)
        \/ LQ_Final(i)
        \/ LQ_GetResults(i)
        \/ GQS_Describe(i)
        \/ Return(i)
        \/ CtxError(i)
        \/ Resume(i)
        \/ Raise(i)

\* ------------------------------------------------ list_event_data_stores

\* The keys of EventDataStore.model_dump() the handler reads or writes.
StoreKeys == {"event_data_store_arn", "name", "status", "advanced_event_selectors",
              "multi_region_enabled", "organization_enabled"}

\* A listed store after EventDataStore.model_validate(store).model_dump()
\* (line 395): every field of the model, None where the listing has no value.
\* The listing carries no selector or scope information.
StoreSummaries ==
    {[k \in StoreKeys |->
        CASE k = "event_data_store_arn" -> a
          [] k = "name" -> n
          [] k = "status" -> st
          [] OTHER -> None] :
     a \in {None, "arn"}, n \in {"eds1", "eds2"}, st \in {"ENABLED", "PENDING_DELETION"}}

\* The get_event_data_store payloads: each key present or absent.
DetailResponses ==
    [AdvancedEventSelectors : {None, "selectors"},
     MultiRegionEnabled : {None, "True"},
     OrganizationEnabled : {None, "True"}]

\* Sequences of length at most n over S.
SeqUpTo(S, n) == UNION {[1..m -> S] : m \in 0..n}

\* remove_null_values (common.py): the dictionary without its None values.
remove_null_values(d) == [k \in {x \in DOMAIN d : d[x] # None} |-> d[k]]

\* d.get(key): the value, None when the key is absent.
Get(d, key) == IF key \in DOMAIN d THEN d[key] ELSE None

\* Python truthiness of the values that occur here.
Truthy(v) == v \notin {None, "", "False", "[]"}

\* formatted_store.update({...}) with the three keys read from
\* details_response (lines 404-414); an absent AdvancedEventSelectors is [].
EDS_Merge(fs, d) ==
    [k \in DOMAIN fs |->
        CASE k = "advanced_event_selectors" ->
                 IF d.AdvancedEventSelectors = None THEN "[]"
                                                    ELSE d.AdvancedEventSelectors
          [] k = "multi_region_enabled" -> d.MultiRegionEnabled
          [] k = "organization_enabled" -> d.OrganizationEnabled
          [] OTHER -> fs[k]]

\* `include_details and formatted_store.get('event_data_store_arn')` (line 398).
EDS_WantsDetails(fs) == include_details /\ Truthy(Get(fs, "event_data_store_arn"))

\* The summary of lines 424-435: the number of stores, of stores whose status
\* is ENABLED, and of stores whose multi_region_enabled / organization_enabled
\* is truthy.
EDS_Summary(fs) ==
    [total_stores |-> Len(fs),
     active_stores |->
         Cardinality({k \in 1..Len(fs) : Get(fs[k], "status") = "ENABLED"}),
     multi_region_stores |->
         Cardinality({k \in 1..Len(fs) : Truthy(Get(fs[k], "multi_region_enabled"))}),
     organization_stores |->
         Cardinality({k \in 1..Len(fs) : Truthy(Get(fs[k], "organization_enabled"))})]

StoresIdle ==
    /\ eds_pc = "idle"
    /\ include_details = FALSE
    /\ event_data_stores = <<>>
    /\ formatted_stores = <<>>
    /\ formatted_store = None
    /\ detail_fetches = <<>>
    /\ eds_result = None
    /\ eds_exc = None
    /\ eds_ctx_errors = 0

\* The invocation arrives with its argument.
StoresInit ==
    /\ eds_pc = "client"
    /\ include_details \in BOOLEAN
    /\ event_data_stores = <<>>
    /\ formatted_stores = <<>>
    /\ formatted_store = None
    /\ detail_fetches = <<>>
    /\ eds_result = None
    /\ eds_exc = None
    /\ eds_ctx_errors = 0

EDS_Catch(e) ==
    /\ eds_exc' = e
    /\ eds_pc' = "except"

\* cloudtrail_client = self._get_cloudtrail_client(region) (line 384).
EDS_GetClient ==
    /\ eds_pc = "client"
    /\ \/ eds_pc' = "list" /\ UNCHANGED eds_exc
       \/ \E e \in Faults : EDS_Catch(e)
    /\ UNCHANGED <<include_details, event_data_stores, formatted_stores, formatted_store,
                   detail_fetches, eds_result, eds_ctx_errors>>
    /\ UNCHANGED storeOthers

\* response = list_event_data_stores(); event_data_stores =
\* response.get('EventDataStores', []); formatted_stores = [] (lines 389-393).
EDS_List ==
    /\ eds_pc = "list"
    /\ \/ /\ \E listing \in SeqUpTo(StoreSummaries, MaxStores) :
               /\ event_data_stores' = listing
               /\ detail_fetches' = [k \in 1..Len(listing) |-> <<>>]
          /\ formatted_stores' = <<>>
          /\ eds_pc' = "for"
          /\ UNCHANGED eds_exc
       \/ /\ \E e \in Faults : EDS_Catch(e)
          /\ UNCHANGED <<event_data_stores, formatted_stores, detail_fetches>>
    /\ UNCHANGED <<include_details, formatted_store, eds_result, eds_ctx_errors>>
    /\ UNCHANGED storeOthers

\* `for store in event_data_stores`, formatted_store = ...model_dump() and the
\* test of line 398 (lines 394-398).  Without a detail fetch the store is
\* appended at once (line 421).  After the last store: the summary and the
\* result (lines 423-441).
EDS_For ==
    /\ eds_pc = "for"
    /\ LET k == Len(formatted_stores) + 1 IN
         IF k > Len(event_data_stores)
           THEN /\ eds_result' = [event_data_stores |-> formatted_stores,
                                  summary |-> EDS_Summary(formatted_stores)]
                /\ eds_pc' = "return"
                /\ UNCHANGED <<formatted_store, formatted_stores>>
           ELSE LET fs == event_data_stores[k] IN
                  IF EDS_WantsDetails(fs)
                    THEN /\ formatted_store' = fs
                         /\ eds_pc' = "detail"
                         /\ UNCHANGED <<formatted_stores, eds_result>>
                    ELSE /\ formatted_stores' =
                                Append(formatted_stores, remove_null_values(fs))
                         /\ UNCHANGED <<formatted_store, eds_pc, eds_result>>
    /\ UNCHANGED <<include_details, event_data_stores, detail_fetches, eds_exc,
                   eds_ctx_errors>>
    /\ UNCHANGED storeOthers

\* Mutant of EDS_DetailFailed: the failure leaves a half-merged record.
EDS_DetailFailed_HalfMerged(fs) == [fs EXCEPT !["advanced_event_selectors"] = "[]"]

\* What the inner `except Exception as detail_error` (lines 415-418) does with
\* the store: logger.warning, formatted_store as it was.
EDS_DetailFailed(fs) == fs

\* The inner try (lines 399-418) and the append (line 421):
\* get_event_data_store answers and its details are merged, or it raises and
\* the warning is logged.
EDS_Detail ==
    /\ eds_pc = "detail"
    /\ LET k == Len(formatted_stores) + 1 IN
         \/ \E d \in DetailResponses :
              /\ detail_fetches' = [detail_fetches EXCEPT ![k] = Append(@, "ok")]
              /\ formatted_stores' =
                    Append(formatted_stores,
                           remove_null_values(EDS_Merge(formatted_store, d)))
         \/ /\ detail_fetches' = [detail_fetches EXCEPT ![k] = Append(@, "failed")]
            /\ formatted_stores' =
                  Append(formatted_stores,
                         remove_null_values(EDS_DetailFailed(formatted_store)))
    /\ formatted_store' = None
    /\ eds_pc' = "for"
    /\ UNCHANGED <<include_details, event_data_stores, eds_result, eds_exc,
                   eds_ctx_errors>>
    /\ UNCHANGED storeOthers

\* `return result` (line 446).
EDS_Return ==
    /\ eds_pc = "return"
    /\ eds_pc' = "done"
    /\ UNCHANGED <<include_details, event_data_stores, formatted_stores, formatted_store,
                   detail_fetches, eds_result, eds_exc, eds_ctx_errors>>
    /\ UNCHANGED storeOthers

\* logger.error; await ctx.error(...); raise (lines 448-451).
EDS_Except ==
    /\ eds_pc = "except"
    /\ eds_ctx_errors' = eds_ctx_errors + 1
    /\ eds_pc' = "failed"
    /\ UNCHANGED <<include_details, event_data_stores, formatted_stores, formatted_store,
                   detail_fetches, eds_result, eds_exc>>
    /\ UNCHANGED storeOthers

StoresNext ==
    \/ EDS_GetClient
    \/ EDS_List
    \/ EDS_For
    \/ EDS_Detail
    \/ EDS_Return
    \/ EDS_Except

\* ------------------------------------------------------------------------
\* Python values and the built-ins the result normalizer uses.
\*
\* A value is a pair <<type, payload>>.  A str is the sequence of its
\* characters, each a one-character string.
\* ------------------------------------------------------------------------

PyNone == <<"NoneType", 0>>
PyStr(chars) == <<"str", chars>>
PyInt(n) == <<"int", n>>
PyBool(b) == <<"bool", b>>
\* A finite float m * 10^e, with m not divisible by 10 (0 is <<0, 0>>).
PyFloat(m, e) == <<"float", <<m, e>>>>
PyList(items) == <<"list", items>>
PyTuple(items) == <<"tuple", items>>
\* A dict is the function from its keys to its values.
PyDict(f) == <<"dict", f>>

TypeOf(v) == v[1]
Payload(v) == v[2]

\* isinstance(v, str), isinstance(v, list), isinstance(v, dict).
IsStr(v) == TypeOf(v) = "str"
IsList(v) == TypeOf(v) = "list"
IsDict(v) == TypeOf(v) = "dict"

UpperLetters == <<"A", "B", "C", "D", "E", "F", "G", "H", "I", "J", "K", "L", "M",
                  "N", "O", "P", "Q", "R", "S", "T", "U", "V", "W", "X", "Y", "Z">>
LowerLetters == <<"a", "b", "c", "d", "e", "f", "g", "h", "i", "j", "k", "l", "m",
                  "n", "o", "p", "q", "r", "s", "t", "u", "v", "w", "x", "y", "z">>
DigitChars == <<"0", "1", "2", "3", "4", "5", "6", "7", "8", "9">>

Range(f) == {f[k] : k \in DOMAIN f}
Digits == Range(DigitChars)
Whitespace == {" "}

LowerChar(c) ==
    IF c \in Range(UpperLetters)
      THEN LowerLetters[CHOOSE k \in DOMAIN UpperLetters : UpperLetters[k] = c]
      ELSE c

\* str.lower()
Lower(s) == [k \in 1..Len(s) |-> LowerChar(s[k])]

\* str.strip()
Strip(s) ==
    LET inner == {k \in 1..Len(s) : s[k] \notin Whitespace} IN
      IF inner = {} THEN <<>>
      ELSE LET first == CHOOSE k \in inner : \A j \in inner : k <= j
               last == CHOOSE k \in inner : \A j \in inner : j <= k
           IN  SubSeq(s, first, last)

\* `c in s`
Contains(s, c) == \E k \in 1..Len(s) : s[k] = c

\* s[:n]
Prefix(s, n) == SubSeq(s, 1, IF n < Len(s) THEN n ELSE Len(s))

\* s.replace('Z', '+00:00')
RECURSIVE ReplaceZ(_)
ReplaceZ(s) ==
    IF s = <<>> THEN <<>>
    ELSE IF Head(s) = "Z" THEN <<"+", "0", "0", ":", "0", "0">> \o ReplaceZ(Tail(s))
    ELSE <<Head(s)>> \o ReplaceZ(Tail(s))

DigitVal(c) == (CHOOSE k \in DOMAIN DigitChars : DigitChars[k] = c) - 1

\* A run of decimal digits in which single underscores may separate digits.
IsDigitRun(b) ==
    /\ Len(b) > 0
    /\ b[1] \in Digits
    /\ b[Len(b)] \in Digits
    /\ \A k \in 1..Len(b) : b[k] \in Digits \cup {"_"}
    /\ \A k \in 1..(Len(b) - 1) : ~(b[k] = "_" /\ b[k + 1] = "_")

WithoutUnderscores(b) == SelectSeq(b, LAMBDA c : c # "_")

\* The number written by a sequence of digits.
RECURSIVE DigitsValue(_)
DigitsValue(d) ==
    IF d = <<>> THEN 0
    ELSE 10 * DigitsValue(SubSeq(d, 1, Len(d) - 1)) + DigitVal(d[Len(d)])

IsSign(c) == c \in {"+", "-"}

\* A numeral split into its sign (1 or -1) and the rest.
SignOf(t) == IF Len(t) > 0 /\ t[1] = "-" THEN -1 ELSE 1
Unsigned(t) == IF Len(t) > 0 /\ IsSign(t[1]) THEN Tail(t) ELSE t

ValueError == <<"raise", "ValueError">>
TypeError == <<"raise", "TypeError">>
Returned(v) == <<"return", v>>
Raises(r) == r[1] = "raise"

\* int(s) for a str s: surrounding whitespace, an optional sign, a digit run.
ParseInt(s) ==
    LET t == Strip(s)
        body == Unsigned(t)
    IN  IF IsDigitRun(body)
          THEN Returned(PyInt(SignOf(t) * DigitsValue(WithoutUnderscores(body))))
          ELSE ValueError

\* m * 10^e with the trailing zeros of m moved into e.
RECURSIVE NormalFloat(_, _)
NormalFloat(m, e) ==
    IF m = 0 THEN PyFloat(0, 0)
    ELSE IF m % 10 = 0 THEN NormalFloat(m \div 10, e + 1)
    ELSE PyFloat(m, e)

\* The position of the first character of t that is in S, 0 when none.
FirstOf(t, S) ==
    IF \E k \in 1..Len(t) : t[k] \in S
      THEN CHOOSE k \in 1..Len(t) : t[k] \in S /\ \A j \in 1..(k - 1) : t[j] \notin S
      ELSE 0

\* float(s) for a str s, finite decimal literals: surrounding whitespace, an
\* optional sign, digits with an optional point (digits on at least one side
\* of it), an optional exponent.  The words inf, infinity and nan, which float
\* also accepts, hold neither '.' nor 'e' and never reach it from
\* _format_field_value.
ParseFloat(s) ==
    LET t == Strip(s)
        u == Unsigned(t)
        epos == FirstOf(u, {"e", "E"})
        mant == IF epos = 0 THEN u ELSE SubSeq(u, 1, epos - 1)
        expo == IF epos = 0 THEN <<>> ELSE SubSeq(u, epos + 1, Len(u))
        dot == FirstOf(mant, {"."})
        ipart == IF dot = 0 THEN mant ELSE SubSeq(mant, 1, dot - 1)
        fpart == IF dot = 0 THEN <<>> ELSE SubSeq(mant, dot + 1, Len(mant))
        mantOk == /\ ipart = <<>> \/ IsDigitRun(ipart)
                  /\ fpart = <<>> \/ IsDigitRun(fpart)
                  /\ ipart # <<>> \/ fpart # <<>>
        expOk == epos = 0 \/ IsDigitRun(Unsigned(expo))
        fdigits == WithoutUnderscores(fpart)
        m == DigitsValue(WithoutUnderscores(ipart) \o fdigits)
        e == (IF epos = 0 THEN 0
              ELSE SignOf(expo) * DigitsValue(WithoutUnderscores(Unsigned(expo))))
             - Len(fdigits)
    IN  IF mantOk /\ expOk THEN Returned(NormalFloat(SignOf(t) * m, e)) ELSE ValueError

\* The characters of s at positions a..b.
Slice(s, a, b) == SubSeq(s, a, b)

AllDigits(s) == \A k \in 1..Len(s) : s[k] \in Digits

IsLeapYear(y) == (y % 4 = 0 /\ y % 100 # 0) \/ y % 400 = 0

DaysInMonth(y, m) ==
    IF m = 2 THEN (IF IsLeapYear(y) THEN 29 ELSE 28)
    ELSE IF m \in {4, 6, 9, 11} THEN 30 ELSE 31

\* datetime.fromisoformat(s).isoformat() for the two layouts
\* YYYY-MM-DD?HH:MM:SS and YYYY-MM-DD?HH:MM:SS(+|-)HH:MM, ? any character: the
\* rendering when s parses, ValueError when it does not.  The date and time
\* fields are range-checked; the rendering has 'T' as separator and writes a
\* zero offset as +00:00.  A str of another length is taken not to parse; the
\* values drawn below that reach this operator stay within what that covers
\* (no fractional seconds, no offset seconds).
IsoRoundTrip(s) ==
    LET hasOffset == Len(s) = 25
        layoutOk ==
            /\ Len(s) \in {19, 25}
            /\ AllDigits(Slice(s, 1, 4)) /\ s[5] = "-"
            /\ AllDigits(Slice(s, 6, 7)) /\ s[8] = "-"
            /\ AllDigits(Slice(s, 9, 10))
            /\ AllDigits(Slice(s, 12, 13)) /\ s[14] = ":"
            /\ AllDigits(Slice(s, 15, 16)) /\ s[17] = ":"
            /\ AllDigits(Slice(s, 18, 19))
            /\ hasOffset =>
                  /\ IsSign(s[20])
                  /\ AllDigits(Slice(s, 21, 22)) /\ s[23] = ":"
                  /\ AllDigits(Slice(s, 24, 25))
        year == DigitsValue(Slice(s, 1, 4))
        month == DigitsValue(Slice(s, 6, 7))
        day == DigitsValue(Slice(s, 9, 10))
        rangeOk ==
            /\ year >= 1
            /\ month \in 1..12
            /\ day >= 1 /\ day <= DaysInMonth(year, month)
            /\ DigitsValue(Slice(s, 12, 13)) <= 23
            /\ DigitsValue(Slice(s, 15, 16)) <= 59
            /\ DigitsValue(Slice(s, 18, 19)) <= 59
            /\ hasOffset =>
                  /\ DigitsValue(Slice(s, 21, 22)) <= 23
                  /\ DigitsValue(Slice(s, 24, 25)) <= 59
        offset ==
            IF ~hasOffset THEN <<>>
            ELSE IF DigitsValue(Slice(s, 21, 22)) = 0 /\ DigitsValue(Slice(s, 24, 25)) = 0
              THEN <<"+", "0", "0", ":", "0", "0">>
            ELSE Slice(s, 20, 25)
    IN  IF layoutOk /\ rangeOk
          THEN Returned(PyStr(Slice(s, 1, 10) \o <<"T">> \o Slice(s, 12, 19) \o offset))
          ELSE ValueError

\* ------------------------------------------------------ _format_field_value

\* Mutant of FV_value_lower: lowered but not stripped.
FV_value_lower_NoStrip(chars) == Lower(chars)

\* value_lower = value.lower().strip() (line 503).
FV_value_lower(chars) == Strip(Lower(chars))

\* `value_lower in ('true', 'false')` (line 506).
FV_IsBoolean(value_lower) ==
    value_lower \in {<<"t", "r", "u", "e">>, <<"f", "a", "l", "s", "e">>}

\* `value_lower in ('null', 'none', '')` (line 510).
FV_IsNull(value_lower) ==
    value_lower \in {<<"n", "u", "l", "l">>, <<"n", "o", "n", "e">>, <<>>}

\* `len(value) >= 19 and ('T' in value or '-' in value[:10])` (line 514).
FV_LooksLikeDate(chars) ==
    Len(chars) >= 19 /\ (Contains(chars, "T") \/ Contains(Prefix(chars, 10), "-"))

\* The try block of lines 515-518.
FV_Date(chars) == IsoRoundTrip(ReplaceZ(chars))

\* `'.' not in value and 'e' not in value_lower` (line 525).
FV_IsIntegerShaped(chars) == ~Contains(chars, ".") /\ ~Contains(FV_value_lower(chars), "e")

\* The try block of lines 523-528.
FV_Number(chars) == IF FV_IsIntegerShaped(chars) THEN ParseInt(chars) ELSE ParseFloat(chars)

\* _format_field_value (lines 495-533).
_format_field_value(value) ==
    IF value = PyNone THEN PyNone
    ELSE IF ~IsStr(value) THEN value
    ELSE LET chars == Payload(value)
             value_lower == FV_value_lower(chars)
         IN  IF FV_IsBoolean(value_lower) THEN PyBool(value_lower = <<"t", "r", "u", "e">>)
             ELSE IF FV_IsNull(value_lower) THEN PyNone
             ELSE IF FV_LooksLikeDate(chars) /\ ~Raises(FV_Date(chars))
               THEN FV_Date(chars)[2]
             ELSE IF ~Raises(FV_Number(chars)) THEN FV_Number(chars)[2]
             ELSE value

\* --------------------------------------------------- _process_query_results

FieldKey == PyStr(<<"f", "i", "e", "l", "d">>)
ValueKey == PyStr(<<"v", "a", "l", "u", "e">>)

\* `not v`
Falsy(v) ==
    \/ v = PyNone
    \/ TypeOf(v) \in {"str", "list", "tuple", "dict"} /\ Payload(v) = <<>>
    \/ TypeOf(v) = "int" /\ Payload(v) = 0
    \/ TypeOf(v) = "bool" /\ ~Payload(v)

\* hash(v) succeeds: lists and dicts are unhashable.
RECURSIVE Hashable(_)
Hashable(v) ==
    /\ TypeOf(v) \notin {"list", "dict"}
    /\ TypeOf(v) = "tuple" => \A k \in 1..Len(Payload(v)) : Hashable(Payload(v)[k])

\* An enumeration of a finite set.
RECURSIVE SetToSeq(_)
SetToSeq(S) ==
    IF S = {} THEN <<>>
    ELSE LET x == CHOOSE y \in S : TRUE IN <<x>> \o SetToSeq(S \ {x})

\* `for row in v`: the items iterated, or TypeError for a value that is not
\* iterable.  A str yields its characters, a dict its keys.
PQR_Iterate(v) ==
    CASE TypeOf(v) \in {"list", "tuple"} -> Returned(Payload(v))
      [] TypeOf(v) = "str" ->
             Returned([k \in 1..Len(Payload(v)) |-> PyStr(<<Payload(v)[k]>>)])
      [] TypeOf(v) = "dict" -> Returned(SetToSeq(DOMAIN Payload(v)))
      [] OTHER -> TypeError

\* The test of lines 479-483.
PQR_IsFieldInfo(field_info) ==
    /\ IsDict(field_info)
    /\ FieldKey \in DOMAIN Payload(field_info)
    /\ ValueKey \in DOMAIN Payload(field_info)

\* d[k] = x on the dict payload d.
DictSet(d, k, x) == [j \in DOMAIN d \cup {k} |-> IF j = k THEN x ELSE d[j]]

\* The inner loop (lines 478-488) over the descriptors of row from position
\* k on, processed_row being the dict built so far: the dict at the end of the
\* loop, or TypeError where a field name cannot be a key.
RECURSIVE PQR_Fields(_, _, _)
PQR_Fields(row, k, processed_row) ==
    IF k > Len(row) THEN Returned(processed_row)
    ELSE LET field_info == row[k] IN
           IF ~PQR_IsFieldInfo(field_info)
             THEN PQR_Fields(row, k + 1, processed_row)
             ELSE LET field_name == Payload(field_info)[FieldKey]
                      field_value == Payload(field_info)[ValueKey]
                  IN  IF ~Hashable(field_name) THEN TypeError
                      ELSE PQR_Fields(row, k + 1,
                                      DictSet(processed_row, field_name,
                                              _format_field_value(field_value)))

\* `if not row or not isinstance(row, list)` (line 473).
PQR_SkipRow(row) == Falsy(row) \/ ~IsList(row)

\* `if processed_row` (line 490).
PQR_KeepRow(processed_row) == processed_row # <<>>

\* The outer loop (lines 472-491) over rows from position k on,
\* processed_results being the list built so far.
RECURSIVE PQR_Rows(_, _, _)
PQR_Rows(rows, k, processed_results) ==
    IF k > Len(rows) THEN Returned(PyList(processed_results))
    ELSE LET row == rows[k] IN
           IF PQR_SkipRow(row) THEN PQR_Rows(rows, k + 1, processed_results)
           ELSE LET fields == PQR_Fields(Payload(row), 1, <<>>) IN
                  IF Raises(fields) THEN fields
                  ELSE IF PQR_KeepRow(fields[2])
                    THEN PQR_Rows(rows, k + 1, Append(processed_results, PyDict(fields[2])))
                  ELSE PQR_Rows(rows, k + 1, processed_results)

\* _process_query_results (lines 453-493).
_process_query_results(raw) ==
    IF Falsy(raw) THEN Returned(PyList(<<>>))
    ELSE IF Raises(PQR_Iterate(raw)) THEN PQR_Iterate(raw)
    ELSE PQR_Rows(PQR_Iterate(raw)[2], 1, <<>>)

\* ------------------------------------------------- the normalizer's callers

\* The str with the characters of a short text over ShortAlphabet.
ShortAlphabet == {"4", "2", ".", "e", "-", " ", "_"}

\* The str values passed besides the short ones.
ListedStrings ==
    {<<"t", "r", "u", "e">>, <<"T", "R", "U", "E">>, <<" ", "f", "a", "l", "s", "e", " ">>,
     <<"F", "a", "l", "s", "e">>, <<"t", "r", "u", "e", "e">>, <<"t", " ", "r", "u", "e">>,
     <<"n", "u", "l", "l">>, <<" ", "N", "U", "L", "L">>, <<"N", "o", "n", "e">>,
     <<"n", "o", "n", "e", "s">>,
     <<"h", "e", "l", "l", "o">>, <<"i", "n", "f">>, <<"n", "a", "n">>,
     <<"1", "e", "5">>, <<"1", "E", "5">>, <<"1", ".", "5", "0">>, <<"-", ".", "5", "e", "-", "2">>,
     <<" ", "4", "2", " ">>, <<"+", "4", "2">>, <<"4", "_", "2">>, <<"0", "x", "1", "0">>,
     <<"1", "e">>, <<"1", ".", "2", ".", "3">>,
     \* timestamps that parse
     <<"2", "0", "2", "3", "-", "0", "1", "-", "0", "1", "T",
       "0", "0", ":", "0", "0", ":", "0", "0">>,
     <<"2", "0", "2", "3", "-", "0", "1", "-", "0", "1", "T",
       "0", "0", ":", "0", "0", ":", "0", "0", "Z">>,
     <<"2", "0", "2", "3", "-", "0", "1", "-", "0", "1", " ",
       "1", "2", ":", "3", "0", ":", "0", "0">>,
     <<"2", "0", "2", "4", "-", "0", "2", "-", "2", "9", "T",
       "1", "0", ":", "0", "0", ":", "0", "0", "-", "0", "5", ":", "0", "0">>,
     \* shaped like a timestamp, not one
     <<"2", "0", "2", "3", "-", "1", "3", "-", "0", "1", "T",
       "0", "0", ":", "0", "0", ":", "0", "0">>,
     <<"2", "0", "2", "3", "-", "0", "2", "-", "2", "9", "T",
       "1", "0", ":", "0", "0", ":", "0", "0">>,
     <<"2", "0", "2", "3", "-", "0", "1", "-", "0", "1", "T",
       "0", "0", ":", "0", "0", ":", "0", "0", "Z", "Z">>,
     <<"T", "h", "e", " ", "q", "u", "e", "r", "y", " ", "t", "i", "m", "e", "d",
       " ", "o", "u", "t">>,
     \* shaped like a timestamp, a number
     <<"-", "0", "0", "0", "0", "0", "0", "0", "0", "0", "0", "0", "0", "0", "0", "0", "0",
       "4", "2">>,
     <<"-", "0", "0", "0", "0", "0", "0", "0", "0", "0", "0", "0", "0", "0", "0", "0", "4",
       ".", "5">>,
     \* 19 characters, not shaped like a timestamp
     <<"0", "0", "0", "0", "0", "0", "0", "0", "0", "0", "0", "0", "0", "0", "0", "0", "0",
       "4", "2">>}

\* Values that are not str.
NonStrings == {PyNone, PyInt(42), PyInt(0), PyBool(TRUE), PyBool(FALSE), PyFloat(15, -1),
               PyList(<<>>), PyDict(<<>>)}

\* The values _format_field_value is called with.
FieldValues ==
    {PyStr(chars) : chars \in SeqUpTo(ShortAlphabet, MaxStrLen) \cup ListedStrings}
        \cup NonStrings

\* A dict with the keys 'field' and 'value'.
FieldInfo(name, v) == PyDict((FieldKey :> name) @@ (ValueKey :> v))

\* The descriptors of the rows passed: with both keys (field names that are
\* str, int or list), with one key, with neither, and not a dict.
Descriptors ==
    {FieldInfo(PyStr(<<"a">>), PyStr(<<"4", "2">>)),
     FieldInfo(PyStr(<<"a">>), PyStr(<<"t", "r", "u", "e">>)),
     FieldInfo(PyStr(<<"b">>), PyStr(<<"h", "e", "l", "l", "o">>)),
     FieldInfo(PyInt(1), PyNone),
     FieldInfo(PyList(<<PyStr(<<"a">>)>>), PyStr(<<"x">>)),
     PyDict(FieldKey :> PyStr(<<"a">>)),
     PyDict(ValueKey :> PyStr(<<"x">>)),
     PyDict(PyStr(<<"n", "a", "m", "e">>) :> PyStr(<<"a">>)),
     PyStr(<<"a">>)}

\* The rows that are not a list.
NonListRows == {PyNone, PyInt(7), PyStr(<<"r", "o", "w">>),
               FieldInfo(PyStr(<<"a">>), PyStr(<<"4", "2">>)),
               PyTuple(<<FieldInfo(PyStr(<<"a">>), PyStr(<<"4", "2">>))>>)}

Rows == {PyList(fields) : fields \in SeqUpTo(Descriptors, MaxFields)} \cup NonListRows

\* The grids that are not a list.
NonListGrids == {PyNone, PyInt(0), PyInt(5), PyBool(TRUE), PyStr(<<"g">>),
                PyDict(FieldKey :> PyStr(<<"a">>))}

\* The values _process_query_results is called with.
Grids == {PyList(rows) : rows \in SeqUpTo(Rows, MaxRows)} \cup NonListGrids

NormIdle ==
    /\ fv_pc = "idle"
    /\ fv_value = PyNone
    /\ fv_return = PyNone
    /\ pqr_pc = "idle"
    /\ raw_results = PyNone
    /\ pqr_outcome = Returned(PyNone)

\* A caller holding a value calls _format_field_value.
ValueInit ==
    /\ fv_pc = "call"
    /\ fv_value \in FieldValues
    /\ fv_return = PyNone
    /\ pqr_pc = "idle"
    /\ raw_results = PyNone
    /\ pqr_outcome = Returned(PyNone)

\* A caller holding a value calls _process_query_results.
GridInit ==
    /\ fv_pc = "idle"
    /\ fv_value = PyNone
    /\ fv_return = PyNone
    /\ pqr_pc = "call"
    /\ raw_results \in Grids
    /\ pqr_outcome = Returned(PyNone)

FormatFieldValue ==
    /\ fv_pc = "call"
    /\ fv_return' = _format_field_value(fv_value)
    /\ fv_pc' = "done"
    /\ UNCHANGED <<fv_value, pqr_pc, raw_results, pqr_outcome>>
    /\ UNCHANGED normOthers

ProcessQueryResults ==
    /\ pqr_pc = "call"
    /\ pqr_outcome' = _process_query_results(raw_results)
    /\ pqr_pc' = "done"
    /\ UNCHANGED <<raw_results, fv_pc, fv_value, fv_return>>
    /\ UNCHANGED normOthers

\* ------------------------------------------------------------------------
\* lookup_events (lines 84-201).
\* ------------------------------------------------------------------------

\* The defaults of line 157.
default_max_results == 10
max_allowed == 50

\* A datetime, as hours since the epoch; its isoformat() rendering.
DateTime(h) == <<"datetime", h>>
Isoformat(dt) == <<"isoformat", Payload(dt)>>

\* The absolute times the ISO texts passed stand for.
IsoTexts == {"2024-01-01T00:00:00", "2024-01-03T12:00:00"}
IsoHours(s) == IF s = "2024-01-01T00:00:00" THEN 473352 ELSE 473412

\* The relative expressions passed and the hours they go back.
RelativeTexts == {"now", "1 hour ago", "1 day ago"}
HoursAgo(s) == CASE s = "now" -> 0 [] s = "1 hour ago" -> 1 [] s = "1 day ago" -> 24

\* parse_time_input(s) at the time now: ISO-8601 or a relative expression
\* gives an absolute time, anything else fails.
parse_time_input(s, now) ==
    CASE s \in IsoTexts -> Returned(DateTime(IsoHours(s)))
      [] s \in RelativeTexts -> Returned(DateTime(now - HoursAgo(s)))
      [] OTHER -> ValueError

\* validate_max_results(m, default, allowed): the default for None, else m
\* clamped into 1..allowed.
validate_max_results(m, default, allowed) ==
    IF m = PyNone THEN PyInt(default)
    ELSE IF Payload(m) < 1 THEN PyInt(1)
    ELSE IF Payload(m) > allowed THEN PyInt(allowed)
    ELSE m

\* remove_null_values on a dict of Python values.
LK_remove_null_values(d) == [k \in {x \in DOMAIN d : d[x] # PyNone} |-> d[k]]

\* The arguments passed.
Regions == {"us-east-1", "eu-west-1"}
TimeArguments == {None, "", "1 hour ago", "2024-01-01T00:00:00", "a while ago"}
AttributeKeys == {None, "EventName", "Username"}
AttributeValues == {None, "", "ConsoleLogin"}
MaxResultsArguments == {PyNone, PyInt(0), PyInt(1), PyInt(10), PyInt(50), PyInt(75)}
Clock == {473500}

\* What the remote lookup_events call answers with.
EventLists == {None, <<>>, <<"event">>}
NextTokens == {None, "token"}

LookupIdle ==
    /\ lk_pc = "idle"
    /\ lk_now \in Clock
    /\ region = "us-east-1"
    /\ start_time = None
    /\ end_time = None
    /\ attribute_key = None
    /\ attribute_value = None
    /\ max_results = PyNone
    /\ start_dt = PyNone
    /\ end_dt = PyNone
    /\ lookup_params = <<>>
    /\ lk_call = <<>>
    /\ lk_result = <<>>
    /\ lk_exc = None
    /\ lk_ctx_errors = 0

\* lookup_events is called.
LookupInit ==
    /\ lk_pc = "client"
    /\ lk_now \in Clock
    /\ region \in Regions
    /\ start_time \in TimeArguments
    /\ end_time \in TimeArguments
    /\ attribute_key \in AttributeKeys
    /\ attribute_value \in AttributeValues
    /\ max_results \in MaxResultsArguments
    /\ start_dt = PyNone
    /\ end_dt = PyNone
    /\ lookup_params = <<>>
    /\ lk_call = <<>>
    /\ lk_result = <<>>
    /\ lk_exc = None
    /\ lk_ctx_errors = 0

LK_Catch(e) ==
    /\ lk_exc' = e
    /\ lk_pc' = "except"

\* cloudtrail_client = self._get_cloudtrail_client(region) (line 144).
LK_GetClient ==
    /\ lk_pc = "client"
    /\ \/ lk_pc' = "parse" /\ UNCHANGED lk_exc
       \/ \E e \in Faults : LK_Catch(e)
    /\ UNCHANGED <<lk_now, region, start_time, end_time, attribute_key, attribute_value,
                   max_results, start_dt, end_dt, lookup_params, lk_call, lk_result,
                   lk_ctx_errors>>
    /\ UNCHANGED lookupOthers

\* The default time range and the two parse_time_input calls (lines 147-154).
LK_Parse ==
    /\ lk_pc = "parse"
    /\ LET start == IF ~Truthy(start_time) THEN "1 day ago" ELSE start_time
           end == IF ~Truthy(end_time) THEN "now" ELSE end_time
           start_parsed == parse_time_input(start, lk_now)
           end_parsed == parse_time_input(end, lk_now)
       IN  /\ start_time' = start
           /\ end_time' = end
           /\ IF Raises(start_parsed)
                THEN LK_Catch("ValueError") /\ UNCHANGED <<start_dt, end_dt>>
              ELSE IF Raises(end_parsed)
                THEN LK_Catch("ValueError") /\ start_dt' = start_parsed[2] /\ UNCHANGED end_dt
              ELSE /\ start_dt' = start_parsed[2]
                   /\ end_dt' = end_parsed[2]
                   /\ lk_pc' = "build"
                   /\ UNCHANGED lk_exc
    /\ UNCHANGED <<lk_now, region, attribute_key, attribute_value, max_results,
                   lookup_params, lk_call, lk_result, lk_ctx_errors>>
    /\ UNCHANGED lookupOthers

\* The attribute filter of lines 168-170.
LK_LookupAttributes ==
    PyList(<<PyDict([AttributeKey |-> attribute_key, AttributeValue |-> attribute_value])>>)

\* validate_max_results and lookup_params (lines 157-170).
LK_Build ==
    /\ lk_pc = "build"
    /\ LET validated == validate_max_results(max_results, default_max_results, max_allowed)
           params == [StartTime |-> start_dt, EndTime |-> end_dt, MaxResults |-> validated]
       IN  /\ max_results' = validated
           /\ lookup_params' =
                 IF Truthy(attribute_key) /\ Truthy(attribute_value)
                   THEN params @@ [LookupAttributes |-> LK_LookupAttributes]
                   ELSE params
    /\ lk_pc' = "call"
    /\ UNCHANGED <<lk_now, region, start_time, end_time, attribute_key, attribute_value,
                   start_dt, end_dt, lk_call, lk_result, lk_exc, lk_ctx_errors>>
    /\ UNCHANGED lookupOthers

\* The remote call and the result built from its response (lines 175-191).
LK_Call ==
    /\ lk_pc = "call"
    /\ lk_call' = LK_remove_null_values(lookup_params)
    /\ \/ \E events \in EventLists, token \in NextTokens :
             /\ lk_result' =
                   [events |-> IF events = None THEN <<>> ELSE events,
                    next_token |-> token,
                    query_params |->
                        [start_time |-> Isoformat(start_dt),
                         end_time |-> Isoformat(end_dt),
                         attribute_key |-> attribute_key,
                         attribute_value |-> attribute_value,
                         max_results |-> max_results,
                         region |-> region]]
             /\ lk_pc' = "return"
             /\ UNCHANGED lk_exc
       \/ /\ \E e \in Faults : LK_Catch(e)
          /\ UNCHANGED lk_result
    /\ UNCHANGED <<lk_now, region, start_time, end_time, attribute_key, attribute_value,
                   max_results, start_dt, end_dt, lookup_params, lk_ctx_errors>>
    /\ UNCHANGED lookupOthers

\* return result (line 196).
LK_Return ==
    /\ lk_pc = "return"
    /\ lk_pc' = "done"
    /\ UNCHANGED <<lk_now, region, start_time, end_time, attribute_key, attribute_value,
                   max_results, start_dt, end_dt, lookup_params, lk_call, lk_result,
                   lk_exc, lk_ctx_errors>>
    /\ UNCHANGED lookupOthers

\* logger.error; await ctx.error(...); raise (lines 198-201).
LK_Except ==
    /\ lk_pc = "except"
    /\ lk_ctx_errors' = lk_ctx_errors + 1
    /\ lk_pc' = "failed"
    /\ UNCHANGED <<lk_now, region, start_time, end_time, attribute_key, attribute_value,
                   max_results, start_dt, end_dt, lookup_params, lk_call, lk_result,
                   lk_exc>>
    /\ UNCHANGED lookupOthers

LookupNext ==
    \/ LK_GetClient
    \/ LK_Parse
    \/ LK_Build
    \/ LK_Call
    \/ LK_Return
    \/ LK_Except

\* ------------------------------------------------------------------------
\* __init__, cloudtrail_client and _get_cloudtrail_client (lines 42-68).
\* ------------------------------------------------------------------------

\* The client _get_cloudtrail_client(region) returns: a new object at every
\* call, the serial-th the caller has obtained.
Client(r, serial) == <<"client", <<r, serial>>>>

\* __init__ (lines 42-45); no access has been made.
ClientInit ==
    /\ _cloudtrail_client = PyNone
    /\ _cloudtrail_client_region = None
    /\ cc_constructed = 0
    /\ cc_returns = <<>>

\* Mutant of CC_NeedsClient: the region test inverted.
CC_NeedsClient_RegionInverted ==
    _cloudtrail_client = PyNone \/ _cloudtrail_client_region = "us-east-1"

\* `self._cloudtrail_client is None or self._cloudtrail_client_region !=
\* 'us-east-1'` (line 50).
CC_NeedsClient ==
    _cloudtrail_client = PyNone \/ _cloudtrail_client_region # "us-east-1"

\* One access to the property cloudtrail_client (lines 47-53): the cached
\* client, after it was constructed and stored where CC_NeedsClient; the
\* exception of _get_cloudtrail_client (lines 65-67) leaves the attributes as
\* they were.
CC_Access ==
    /\ Len(cc_returns) < MaxAccesses
    /\ IF CC_NeedsClient
         THEN \/ /\ _cloudtrail_client' = Client("us-east-1", cc_constructed + 1)
                 /\ _cloudtrail_client_region' = "us-east-1"
                 /\ cc_constructed' = cc_constructed + 1
                 /\ cc_returns' = Append(cc_returns, Returned(_cloudtrail_client'))
              \/ /\ \E e \in Faults : cc_returns' = Append(cc_returns, <<"raise", e>>)
                 /\ UNCHANGED <<_cloudtrail_client, _cloudtrail_client_region, cc_constructed>>
         ELSE /\ cc_returns' = Append(cc_returns, Returned(_cloudtrail_client))
              /\ UNCHANGED <<_cloudtrail_client, _cloudtrail_client_region, cc_constructed>>
    /\ UNCHANGED clientOthers

\* ------------------------------------------------------------------------
\* Specifications.
\* ------------------------------------------------------------------------

\* The tool handlers on the event loop; no other operation is in progress.
Init == LakeInit /\ StoresIdle /\ NormIdle /\ LookupIdle /\ ClientInit

Next == LakeNext

Spec == Init /\ [][Next]_vars

\* One invocation of list_event_data_stores.
InitStores == LakeInit /\ StoresInit /\ NormIdle /\ LookupIdle /\ ClientInit

NextStores == StoresNext

SpecStores == InitStores /\ [][NextStores]_vars

\* One call of _format_field_value.
InitValue == LakeInit /\ StoresIdle /\ ValueInit /\ LookupIdle /\ ClientInit

NextValue == FormatFieldValue

SpecValue == InitValue /\ [][NextValue]_vars

\* One call of _process_query_results.
InitNorm == LakeInit /\ StoresIdle /\ GridInit /\ LookupIdle /\ ClientInit

NextNorm == ProcessQueryResults

SpecNorm == InitNorm /\ [][NextNorm]_vars

\* One invocation of lookup_events.
InitLookup == LakeInit /\ StoresIdle /\ NormIdle /\ LookupInit /\ ClientInit

NextLookup == LookupNext

SpecLookup == InitLookup /\ [][NextLookup]_vars

\* One invocation of lookup_events and accesses to the cloudtrail_client
\* property of the same instance, in any order.
InitClient == InitLookup

NextClient ==
    \/ LookupNext
    \/ CC_Access

SpecClient == InitClient /\ [][NextClient]_vars

\* ------------------------------------------------------------------------
\* Claims about lake_query and the event loop, checked under Spec.
\* ------------------------------------------------------------------------

\* The number of poll iterations the budget allows.
MaxPolls == max_wait_time \div poll_interval

IsLake(i) == kind[i] = "lake_query"

\* C1: when the first terminal status the remote service answers is the k-th
\* (1 <= k <= 150), the poll loop has issued exactly k status fetches and k-1
\* sleeps, has accumulated 2*(k-1) units, is out of the loop for good, and
\* works with (and returns) the status of that k-th payload; for a first
\* terminal status FINISHED at position 3 the return follows exactly 3 status
\* fetches and 1 result fetch with 4 elapsed units.
C1_FirstTerminalStopsPoll ==
    \A i \in Inv :
        (IsLake(i) /\ firstTerminal[i].at >= 1) =>
            LET k == firstTerminal[i].at
                st == firstTerminal[i].status
            IN  /\ k <= 150
                /\ pc[i] \in {"final", "get_results", "return", "except"}
                /\ calls[i].describe_query = k
                /\ calls[i].sleep = k - 1
                /\ elapsed_time[i] = 2 * (k - 1)
                /\ query_status[i] = st
                /\ status_response[i].QueryStatus = st
                /\ (pc[i] = "return" => result[i].query_status = st)
                /\ (pc[i] = "return" /\ k = 3 /\ st = "FINISHED") =>
                      /\ calls[i].describe_query = 3
                      /\ calls[i].get_query_results = 1
                      /\ elapsed_time[i] = 4

\* Witness of C1: a lake_query returns after FINISHED came third.
C1_Witness ==
    \E i \in Inv :
        /\ IsLake(i)
        /\ pc[i] = "return"
        /\ firstTerminal[i] = [at |-> 3, status |-> "FINISHED"]
        /\ calls[i].get_query_results = 1

\* C2: the poll loop never issues more than 150 status fetches (nor sleeps);
\* when no fetched status was terminal, the loop is left after exactly 150
\* status fetches and 300 units, no result fetch is issued, no exception is
\* raised, and the returned status is the last fetched, non-terminal one.
C2_BudgetExhausted ==
    \A i \in Inv :
        IsLake(i) =>
            /\ calls[i].describe_query <= 150
            /\ calls[i].sleep <= 150
            /\ elapsed_time[i] <= 300
            /\ (pc[i] = "get_results" => firstTerminal[i].at >= 1)
            /\ (pc[i] \in {"final", "return"} /\ firstTerminal[i].at = 0) =>
                  /\ calls[i].describe_query = 150
                  /\ calls[i].describe_query = MaxPolls
                  /\ calls[i].sleep = 150
                  /\ elapsed_time[i] = 300
                  /\ calls[i].get_query_results = 0
                  /\ exc[i] = None
                  /\ query_status[i] \in NonTerminalStatuses
                  /\ query_status[i] = status_response[i].QueryStatus
                  /\ (pc[i] = "return" => result[i].query_status = query_status[i])

\* Witness of C2: a lake_query returns without having seen a terminal status.
C2_Witness ==
    \E i \in Inv :
        /\ IsLake(i)
        /\ pc[i] = "return"
        /\ firstTerminal[i].at = 0
        /\ calls[i].describe_query = 150
        /\ result[i].query_status = "QUEUED"

\* C3: a result fetch is issued at most once, with MaxQueryResults = 1000 and
\* only after the last fetched status was FINISHED; a lake_query that returns
\* has issued it exactly when that status is FINISHED, and otherwise returns
\* the ErrorMessage of the last status payload and no result rows.
C3_ResultFetchIffFinished ==
    \A i \in Inv :
        IsLake(i) =>
            /\ calls[i].get_query_results \in {0, 1}
            /\ calls[i].get_query_results = 1 =>
                  /\ status_response[i].QueryStatus = "FINISHED"
                  /\ lastCall[i] = RemoteCall("get_query_results", query_id[i], 1000)
            /\ pc[i] = "return" =>
                  /\ calls[i].get_query_results = 1
                        <=> status_response[i].QueryStatus = "FINISHED"
                  /\ status_response[i].QueryStatus = "FINISHED" =>
                        result[i].query_result_rows \in RowPayloads
                  /\ status_response[i].QueryStatus # "FINISHED" =>
                        /\ result[i].error_message = status_response[i].ErrorMessage
                        /\ result[i].query_result_rows = None
                        /\ result[i].next_token = None

\* Witness of C3: a lake_query returns FAILED with the payload's error message.
C3_Witness ==
    \E i \in Inv :
        /\ IsLake(i)
        /\ pc[i] = "return"
        /\ status_response[i] = [QueryStatus |-> "FAILED", ErrorMessage |-> "msg"]
        /\ result[i].error_message = "msg"
        /\ calls[i].get_query_results = 0

\* C4: while a lake_query is inside the sleep of its poll loop, every other
\* invocation that is waiting for the event loop (to start, or to resume after
\* its await) can take its next step.
C4_SleepSuspendsOnlyCaller ==
    \A i, j \in Inv :
        (i # j /\ IsLake(i) /\ pc[i] = "sleep" /\ pc[j] \in {"ready", "awaiting"}) =>
            ENABLED (Run(j) \/ Resume(j))

C5_FaultState ==
    \A i \in Inv :
        IsLake(i) =>
            /\ ctx_errors[i] <= 1
            /\ exc[i] # None =>
                  /\ pc[i] \in {"except", "awaiting", "reraise", "failed"}
                  /\ result[i] = None
            /\ pc[i] \in {"awaiting", "reraise", "failed"} =>
                  /\ ctx_errors[i] = 1
                  /\ exc[i] \in Faults
            /\ pc[i] \in {"return", "done"} => (exc[i] = None /\ ctx_errors[i] = 0)
            /\ raised[i] # None => pc[i] = "failed"
            /\ pc[i] = "failed" => (raised[i] = exc[i] /\ result[i] = None)

C5_FaultStep ==
    \A i \in Inv :
        (IsLake(i) /\ exc[i] # None) =>
            /\ calls'[i].start_query <= calls[i].start_query
            /\ calls'[i].describe_query <= calls[i].describe_query
            /\ calls'[i].get_query_results <= calls[i].get_query_results
            /\ calls'[i].sleep <= calls[i].sleep
            /\ exc'[i] = exc[i]

\* C5: once a remote call of a lake_query has raised, the invocation issues no
\* further remote call, calls ctx.error exactly once and before the exception
\* leaves the handler, re-raises the exception it caught, and returns no result.
C5_FaultIsFatal == []C5_FaultState /\ [][C5_FaultStep]_vars

\* Witness of C5: a lake_query has failed with the fault it caught.
C5_Witness ==
    \E i \in Inv :
        /\ IsLake(i)
        /\ pc[i] = "failed"
        /\ raised[i] \in Faults
        /\ ctx_errors[i] = 1

\* ------------------------------------------------------------------------
\* Claims about list_event_data_stores, checked under SpecStores.
\* ------------------------------------------------------------------------

SummaryKeys == {"event_data_store_arn", "name", "status"}

DetailKeys == {"advanced_event_selectors", "multi_region_enabled", "organization_enabled"}

C6_Listing ==
    /\ \A k \in 1..Len(event_data_stores) :
          /\ Len(detail_fetches[k]) <= 1
          /\ ~include_details => detail_fetches[k] = <<>>
    /\ eds_pc \in {"return", "done"} =>
          /\ eds_exc = None
          /\ Len(eds_result.event_data_stores) = Len(event_data_stores)
          /\ \A k \in 1..Len(event_data_stores) :
                LET listed == remove_null_values(event_data_stores[k])
                    rec == eds_result.event_data_stores[k]
                IN  /\ \A key \in SummaryKeys : Get(rec, key) = Get(listed, key)
                    /\ detail_fetches[k] \in {<<>>, <<"failed">>} =>
                          /\ rec = listed
                          /\ DOMAIN rec \cap DetailKeys = {}
                    /\ detail_fetches[k] = <<"ok">> =>
                          "advanced_event_selectors" \in DOMAIN rec

\* After the listing was answered, every step stays on the way to the return.
C6_NoAbort ==
    eds_pc \in {"for", "detail", "return"} =>
        (eds_pc' \in {"for", "detail", "return", "done"} /\ eds_exc' = None)

\* C6: once the remote service has answered the listing, the operation raises
\* nothing and returns one record per listed store, in listing order; at most
\* one detail fetch is made per store and none when include_details is false;
\* a store whose detail fetch failed (or was not made) has exactly its
\* summary record, and a store whose detail fetch succeeded keeps its summary
\* fields whatever happened to the other stores.
C6_DetailFailureDegradesOneRecord == []C6_Listing /\ [][C6_NoAbort]_vars

\* Witness of C6: the listing returns two records, the first store's detail
\* fetch having failed and the second's having succeeded.
C6_Witness ==
    /\ eds_pc = "return"
    /\ Len(event_data_stores) = 2
    /\ detail_fetches = << <<"failed">>, <<"ok">> >>
    /\ "advanced_event_selectors" \notin DOMAIN eds_result.event_data_stores[1]
    /\ Get(eds_result.event_data_stores[2], "multi_region_enabled") = "True"

\* ------------------------------------------------------------------------
\* Claims about _format_field_value, checked under SpecValue.
\* ------------------------------------------------------------------------

TrueChars == <<"t", "r", "u", "e">>
FalseChars == <<"f", "a", "l", "s", "e">>
NullChars == {<<"n", "u", "l", "l">>, <<"n", "o", "n", "e">>, <<>>}

\* The rule order on a str with the characters chars, r being the result.
C8_StrRules(chars, r) ==
    LET trimmed == Strip(Lower(chars))
        isBoolean == trimmed \in {TrueChars, FalseChars}
        isNull == trimmed \in NullChars
        parsed == IsoRoundTrip(ReplaceZ(chars))
        isTimestamp == /\ Len(chars) >= 19
                       /\ Contains(chars, "T") \/ Contains(Prefix(chars, 10), "-")
                       /\ ~Raises(parsed)
        integerShaped == \A c \in {".", "e", "E"} : ~Contains(chars, c)
        number == IF integerShaped THEN ParseInt(chars) ELSE ParseFloat(chars)
    IN  /\ isBoolean => r = PyBool(trimmed = TrueChars)
        /\ ~isBoolean /\ isNull => r = PyNone
        /\ ~isBoolean /\ ~isNull /\ isTimestamp => r = parsed[2] /\ TypeOf(r) = "str"
        /\ ~isBoolean /\ ~isNull /\ ~isTimestamp /\ ~Raises(number) =>
              /\ r = number[2]
              /\ TypeOf(r) = IF integerShaped THEN "int" ELSE "float"
        /\ ~isBoolean /\ ~isNull /\ ~isTimestamp /\ Raises(number) => r = PyStr(chars)

\* C8: _format_field_value returns a value that is not a str unchanged, and
\* types a str by the first rule that matches, in the order boolean (the
\* lowered, trimmed text is "true" or "false"), null ("null", "none" or
\* empty), timestamp (shaped like one and parsing as one: re-rendered in ISO
\* form), number (an int where the text has no '.', 'e' or 'E', a float
\* otherwise); a str no rule matches is returned unchanged.  "42" gives 42,
\* "true" gives true and "hello" gives "hello".
C8_FirstMatchingRuleDecides ==
    fv_pc = "done" =>
        /\ ~IsStr(fv_value) => fv_return = fv_value
        /\ IsStr(fv_value) => C8_StrRules(Payload(fv_value), fv_return)
        /\ fv_value = PyStr(<<"4", "2">>) => fv_return = PyInt(42)
        /\ fv_value = PyStr(TrueChars) => fv_return = PyBool(TRUE)
        /\ fv_value = PyStr(<<"h", "e", "l", "l", "o">>) =>
              fv_return = PyStr(<<"h", "e", "l", "l", "o">>)

\* Witness of C8: a str shaped like a timestamp that does not parse as one
\* has fallen through to the number rule.
C8_Witness ==
    /\ fv_pc = "done"
    /\ IsStr(fv_value)
    /\ Len(Payload(fv_value)) >= 19
    /\ Contains(Prefix(Payload(fv_value), 10), "-")
    /\ fv_return = PyInt(-42)

\* ------------------------------------------------------------------------
\* Claims about _process_query_results, checked under SpecNorm.
\* ------------------------------------------------------------------------

\* C7: whatever value _process_query_results is called with, it raises
\* nothing and returns a list of mappings.
C7_NormalizationNeverRaises ==
    pqr_pc = "done" =>
        /\ ~Raises(pqr_outcome)
        /\ IsList(pqr_outcome[2])
        /\ \A k \in 1..Len(Payload(pqr_outcome[2])) : IsDict(Payload(pqr_outcome[2])[k])

\* A descriptor with the field-name key and the value key.
C9_WellFormed(d) ==
    IsDict(d) /\ {FieldKey, ValueKey} \subseteq DOMAIN Payload(d)

\* A row that contributes a mapping.
C9_Contributes(row) ==
    IsList(row) /\ \E k \in 1..Len(Payload(row)) : C9_WellFormed(Payload(row)[k])

\* The mapping of a contributing row: its well-formed fields, the last
\* descriptor of a name giving the value.
C9_Mapping(row) ==
    LET fields == Payload(row)
        wellFormed == {k \in 1..Len(fields) : C9_WellFormed(fields[k])}
        names == {Payload(fields[k])[FieldKey] : k \in wellFormed}
        last(name) == CHOOSE k \in wellFormed :
                          /\ Payload(fields[k])[FieldKey] = name
                          /\ \A j \in wellFormed :
                                Payload(fields[j])[FieldKey] = name => j <= k
    IN  PyDict([name \in names |->
                   _format_field_value(Payload(fields[last(name)])[ValueKey])])

\* The mappings of the contributing rows, in the order of the rows.
C9_Expected(rows) ==
    LET contributing == SelectSeq(rows, C9_Contributes)
    IN  [k \in 1..Len(contributing) |-> C9_Mapping(contributing[k])]

\* C9: called with a list of rows, _process_query_results returns, in the
\* order of the rows, one mapping for each row that is a list with at least
\* one well-formed descriptor, holding exactly the row's well-formed fields;
\* descriptors that are not well-formed are skipped on their own, and rows
\* that are empty, not a list or without a well-formed descriptor contribute
\* nothing.
C9_FieldThenRowDegradation ==
    pqr_pc = "done" /\ IsList(raw_results) =>
        pqr_outcome = Returned(PyList(C9_Expected(Payload(raw_results))))

\* ------------------------------------------------------------------------
\* Claims about lookup_events, checked under SpecLookup.
\* ------------------------------------------------------------------------

\* C10: the query_params of a returned result are the parameters the remote
\* call was made with: the echoed start and end time render the StartTime and
\* EndTime sent (the 24 hours up to now where the time was absent), the
\* echoed max_results is the MaxResults sent, and an attribute key and value
\* are echoed (as other than None or the empty text) exactly when the
\* attribute filter was sent, being those of the filter.
C10_EchoIsEffective ==
    lk_pc = "done" =>
        LET echoed == lk_result.query_params
            filtered == "LookupAttributes" \in DOMAIN lk_call
        IN  /\ echoed.start_time = Isoformat(lk_call.StartTime)
            /\ echoed.end_time = Isoformat(lk_call.EndTime)
            /\ start_time = "1 day ago" => lk_call.StartTime = DateTime(lk_now - 24)
            /\ end_time = "now" => lk_call.EndTime = DateTime(lk_now)
            /\ echoed.max_results = lk_call.MaxResults
            /\ filtered <=> Truthy(echoed.attribute_key)
            /\ filtered <=> Truthy(echoed.attribute_value)
            /\ filtered =>
                  lk_call.LookupAttributes =
                      PyList(<<PyDict([AttributeKey |-> echoed.attribute_key,
                                       AttributeValue |-> echoed.attribute_value])>>)

\* ------------------------------------------------------------------------
\* Claims about the remote calls of lake_query, checked under Spec.
\* ------------------------------------------------------------------------

\* The remote operations lake_query issues: one that creates the query, two
\* that read it.
C11_Operations == {"start_query", "describe_query", "get_query_results"}

\* Where a lake_query stands once its start_query has returned.
C11_AfterSubmission == {"while", "describe", "sleep", "final", "get_results", "return"}

\* The calls issued so far are a prefix of: one start_query, status fetches,
\* one get_query_results; the fetches carry the query id start_query
\* returned; a lake_query that returns has issued the start_query and at
\* least one status fetch, and one that returns on an exhausted budget has
\* issued a status fetch last and reports the non-terminal status it read.
C11_Order ==
    \A i \in Inv :
        IsLake(i) =>
            /\ calls[i].start_query <= 1
            /\ calls[i].get_query_results <= 1
            /\ calls[i].describe_query >= 1 => calls[i].start_query = 1
            /\ pc[i] \in C11_AfterSubmission => query_id[i] = i
            /\ calls[i].get_query_results = 1 => calls[i].describe_query >= 1
            /\ lastCall[i].op \in C11_Operations \cup {None}
            /\ lastCall[i].op \in {"describe_query", "get_query_results"} =>
                  lastCall[i].QueryId = query_id[i]
            /\ pc[i] = "return" =>
                  /\ calls[i].start_query = 1
                  /\ calls[i].describe_query >= 1
                  /\ result[i].query_id = query_id[i]
            /\ pc[i] = "return" /\ firstTerminal[i].at = 0 =>
                  /\ lastCall[i] = RemoteCall("describe_query", query_id[i], None)
                  /\ result[i].query_status = status_response[i].QueryStatus
                  /\ result[i].query_status \in NonTerminalStatuses

\* Every step that issues a remote call issues the next one of that order,
\* and the query id is not replaced while the invocation runs.
C11_Step ==
    \A i \in Inv :
        IsLake(i) /\ calls'[i] # NoCalls =>
            /\ calls'[i].start_query # calls[i].start_query =>
                  /\ calls[i] = NoCalls
                  /\ lastCall'[i].op = "start_query"
            /\ calls'[i].describe_query # calls[i].describe_query =>
                  /\ calls[i].start_query = 1
                  /\ calls[i].get_query_results = 0
                  /\ lastCall'[i] = RemoteCall("describe_query", i, None)
            /\ calls'[i].get_query_results # calls[i].get_query_results =>
                  /\ calls[i].describe_query >= 1
                  /\ calls[i].get_query_results = 0
                  /\ lastCall'[i].op = "get_query_results"
                  /\ lastCall'[i].QueryId = i
            /\ calls[i].get_query_results = 1 => calls'[i] = calls[i]
            /\ pc[i] \in C11_AfterSubmission => query_id'[i] = query_id[i]

\* C11: a lake_query issues exactly one start_query, then one or more
\* describe_query, then at most one get_query_results, each fetch with the
\* query id the start_query returned; it issues no other remote operation, so
\* a query whose poll budget is exhausted is left as the last status fetch
\* found it, in a non-terminal status.
C11_SubmitThenReadOnly == []C11_Order /\ [][C11_Step]_vars

\* Witness of C11: a lake_query returns after the start_query, two status
\* fetches and the result fetch, all for its query id.
C11_Witness ==
    \E i \in Inv :
        /\ IsLake(i)
        /\ pc[i] = "return"
        /\ calls[i] = [start_query |-> 1, describe_query |-> 2, get_query_results |-> 1,
                       sleep |-> 1]
        /\ lastCall[i] = RemoteCall("get_query_results", i, MaxQueryResults)
        /\ result[i].query_id = i

\* ------------------------------------------------------------------------
\* Claims about the cached client, checked under SpecClient.
\* ------------------------------------------------------------------------

\* The accesses that returned a client.
C12_Returned == {k \in 1..Len(cc_returns) : ~Raises(cc_returns[k])}

\* The property has constructed at most one client; it is cached from the
\* first access that returns on, and every access that returns gives it.
C12_Cache ==
    /\ cc_constructed <= 1
    /\ cc_constructed = 1 <=> C12_Returned # {}
    /\ cc_constructed = 1 <=> _cloudtrail_client # PyNone
    /\ cc_constructed = 1 <=> _cloudtrail_client_region = "us-east-1"
    /\ \A k \in C12_Returned :
          /\ cc_returns[k] = Returned(Client("us-east-1", 1))
          /\ cc_returns[k] = Returned(_cloudtrail_client)

\* The attributes change only in an access to the property that finds no
\* client cached, and no step of a tool invocation changes them.
C12_Step ==
    /\ <<_cloudtrail_client, _cloudtrail_client_region>>' #
           <<_cloudtrail_client, _cloudtrail_client_region>> =>
          /\ Len(cc_returns') = Len(cc_returns) + 1
          /\ C12_Returned = {}
          /\ _cloudtrail_client = PyNone
          /\ lookupVars' = lookupVars
    /\ lookupVars' # lookupVars => clientVars' = clientVars

\* C12: on one instance, whatever the order of the steps of a tool
\* invocation (for any region) and of the accesses to cloudtrail_client, the
\* cached client is constructed at most once, by the first access that
\* returns, and every later access returns that same client; the steps of
\* the tool invocation leave the cached client and its region as they are.
C12_ClientCachedOnce == []C12_Cache /\ [][C12_Step]_vars

\* Witness of C12: after a lookup_events for another region has returned,
\* three accesses have returned the client the first of them constructed.
C12_Witness ==
    /\ lk_pc = "done"
    /\ region = "eu-west-1"
    /\ Len(cc_returns) = 3
    /\ C12_Returned = {1, 2, 3}
    /\ cc_constructed = 1
    /\ cc_returns[3] = Returned(_cloudtrail_client)

====
